---- MODULE Spec2Model ----
(***************************************************************************)
(* feets/extractors/ext_fourier_components.py: FourierComponents.          *)
(*                                                                         *)
(* _components extracts up to five fundamental frequencies from a light    *)
(* curve: three unconditionally, then up to two more behind a             *)
(* signal-to-noise gate, possibly restricted to a frequency band.  Each    *)
(* accepted frequency gets four harmonic fits which are subtracted from    *)
(* the running residual.  fit assembles the feature mapping.               *)
(*                                                                         *)
(* Units.  Frequencies are integers in tenths (0.4 is 4, 27.4 is 274,      *)
(* window_size 0.5 is 5).  Raw phases are integers in units of pi/4.       *)
(* Amplitudes are kept squared (a^2 + b^2), since sqrt is not an integer   *)
(* operation.  Ratios (SNR, periods) are kept as numerator/denominator.    *)
(*                                                                         *)
(* Collaborators.  lscargle, scipy.signal.find_peaks and                   *)
(* scipy.optimize.curve_fit are not part of this file.  find_peaks is      *)
(* modelled by its definition (plateau-aware strict local maxima, never    *)
(* an edge sample).  lscargle returns a strictly ascending frequency grid  *)
(* that depends only on time, and a non-negative power per bin chosen      *)
(* nondeterministically.  curve_fit returns coefficients chosen            *)
(* nondeterministically from a small set.                                  *)
(***************************************************************************)
EXTENDS Integers, Sequences, FiniteSets, TLC

VARIABLES
    pc,               \* control position
    frequency,        \* frequency grid returned by lscargle (fixed by time)
    power,            \* helper specification: the periodogram under test
    ret,              \* helper specification: the helper's returned triple
    freq_range,       \* band handed to get_significant_frequency, or None
    i,                \* slot loop index (line 290, 317, 341, 363)
    j,                \* harmonic loop index (line 297, 327, 350, 373)
    fundamental_Freq, \* frequency returned by the last search, or None
    freq,             \* list of recorded fundamentals
    A,                \* list of amplitude rows
    PH,               \* list of raw phase rows
    Atemp,            \* amplitude row being built
    PHtemp,           \* phase row being built
    magnitude,        \* residual: the harmonic models subtracted so far
    omagnitude,       \* the residual as bound at the start of the slot
    fitted,           \* history: the data handed to the last curve_fit call
    range1_present,   \* line 311
    range2_present,   \* line 312
    scaledPH,         \* line 385
    result,           \* mapping returned by fit
    single_peak       \* history: the first periodogram had exactly one peak

vars ==
    <<pc, frequency, power, ret, freq_range, i, j, fundamental_Freq, freq, A,
      PH, Atemp, PHtemp, magnitude, omagnitude, fitted, range1_present,
      range2_present, scaledPH, result, single_peak>>

-----------------------------------------------------------------------------
(* Optional values: Python's None is the empty tuple, a value x is <<x>>.   *)

None ==
    <<>>

Some(x) ==
    <<x>>

-----------------------------------------------------------------------------
(* Bounds of the exploration.                                              *)

\* lscargle power per bin ranges over 0..MaxPower in the pipeline
MaxPower ==
    2

\* lscargle power per bin ranges over 0..MaxHelperPower in the helper
\* specification
MaxHelperPower ==
    3

\* Frequency grids lscargle may return in the pipeline (tenths).
\* The first has interior bins inside range1, on the shared end 3.3 and
\* inside range2; the second has interior bins below range1 and on its
\* lower end 0.4; the third has interior bins on the upper end 27.4 of
\* range2 and above it.
Grids ==
    { <<4, 9, 33, 38, 274>>,
      <<1, 2, 4, 8, 33>>,
      <<33, 38, 274, 280, 300>> }

\* Grids for the helper specification: the two above, one whose window
\* around the only range1 candidate is empty, and one with both window
\* ends exactly window_size away from the candidate.
HelperGrids ==
    Grids \cup { <<4, 10, 33, 40, 274>>, <<5, 10, 15, 33, 40>> }

\* Coefficient triples (a, b, c) curve_fit may return for the first
\* harmonic.  The first harmonic is fitted at the frequency of a
\* periodogram peak, whose power is strictly positive, so (a, b) # (0, 0).
FundamentalFits ==
    { <<1, 0, 0>>, <<0, 1, 0>> }

\* Coefficient triples curve_fit may return for harmonics 2..4.
HarmonicFits ==
    { <<1, -1, 0>> }

-----------------------------------------------------------------------------
(* Program constants.                                                      *)

\* def _components(..., snr_threshold=3, window_size=0.5)
snr_threshold ==
    3

window_size ==
    5

\* range1 = [0.4, 3.3]
range1 ==
    <<4, 33>>

\* range2 = [3.3, 27.4]
range2 ==
    <<33, 274>>

\* for i in range(3)
StepASlots ==
    3

\* for i in range(2)
ExtensionSlots ==
    2

\* for j in range(4)
Harmonics ==
    4

\* for i in range(5) in fit
FitSlots ==
    5

\* the class attribute features
features ==
   {
     "Freq1_harmonics_amplitude_0", "Freq1_harmonics_amplitude_1",
     "Freq1_harmonics_amplitude_2", "Freq1_harmonics_amplitude_3",
     "Freq2_harmonics_amplitude_0", "Freq2_harmonics_amplitude_1",
     "Freq2_harmonics_amplitude_2", "Freq2_harmonics_amplitude_3",
     "Freq3_harmonics_amplitude_0", "Freq3_harmonics_amplitude_1",
     "Freq3_harmonics_amplitude_2", "Freq3_harmonics_amplitude_3",
     "Freq4_harmonics_amplitude_0", "Freq4_harmonics_amplitude_1",
     "Freq4_harmonics_amplitude_2", "Freq4_harmonics_amplitude_3",
     "Freq5_harmonics_amplitude_0", "Freq5_harmonics_amplitude_1",
     "Freq5_harmonics_amplitude_2", "Freq5_harmonics_amplitude_3",
     "Freq1_harmonics_rel_phase_0", "Freq1_harmonics_rel_phase_1",
     "Freq1_harmonics_rel_phase_2", "Freq1_harmonics_rel_phase_3",
     "Freq2_harmonics_rel_phase_0", "Freq2_harmonics_rel_phase_1",
     "Freq2_harmonics_rel_phase_2", "Freq2_harmonics_rel_phase_3",
     "Freq3_harmonics_rel_phase_0", "Freq3_harmonics_rel_phase_1",
     "Freq3_harmonics_rel_phase_2", "Freq3_harmonics_rel_phase_3",
     "Freq4_harmonics_rel_phase_0", "Freq4_harmonics_rel_phase_1",
     "Freq4_harmonics_rel_phase_2", "Freq4_harmonics_rel_phase_3",
     "Freq5_harmonics_rel_phase_0", "Freq5_harmonics_rel_phase_1",
     "Freq5_harmonics_rel_phase_2", "Freq5_harmonics_rel_phase_3",
     "PeriodLS2", "PeriodLS3",
     "PeriodLS4", "PeriodLS5"
   }

AmplitudeKey ==
   <<
      <<"Freq1_harmonics_amplitude_0", "Freq1_harmonics_amplitude_1", "Freq1_harmonics_amplitude_2", "Freq1_harmonics_amplitude_3">>,
      <<"Freq2_harmonics_amplitude_0", "Freq2_harmonics_amplitude_1", "Freq2_harmonics_amplitude_2", "Freq2_harmonics_amplitude_3">>,
      <<"Freq3_harmonics_amplitude_0", "Freq3_harmonics_amplitude_1", "Freq3_harmonics_amplitude_2", "Freq3_harmonics_amplitude_3">>,
      <<"Freq4_harmonics_amplitude_0", "Freq4_harmonics_amplitude_1", "Freq4_harmonics_amplitude_2", "Freq4_harmonics_amplitude_3">>,
      <<"Freq5_harmonics_amplitude_0", "Freq5_harmonics_amplitude_1", "Freq5_harmonics_amplitude_2", "Freq5_harmonics_amplitude_3">>
   >>

RelPhaseKey ==
   <<
      <<"Freq1_harmonics_rel_phase_0", "Freq1_harmonics_rel_phase_1", "Freq1_harmonics_rel_phase_2", "Freq1_harmonics_rel_phase_3">>,
      <<"Freq2_harmonics_rel_phase_0", "Freq2_harmonics_rel_phase_1", "Freq2_harmonics_rel_phase_2", "Freq2_harmonics_rel_phase_3">>,
      <<"Freq3_harmonics_rel_phase_0", "Freq3_harmonics_rel_phase_1", "Freq3_harmonics_rel_phase_2", "Freq3_harmonics_rel_phase_3">>,
      <<"Freq4_harmonics_rel_phase_0", "Freq4_harmonics_rel_phase_1", "Freq4_harmonics_rel_phase_2", "Freq4_harmonics_rel_phase_3">>,
      <<"Freq5_harmonics_rel_phase_0", "Freq5_harmonics_rel_phase_1", "Freq5_harmonics_rel_phase_2", "Freq5_harmonics_rel_phase_3">>
   >>

PeriodKey ==
   <<"PeriodLS1", "PeriodLS2", "PeriodLS3", "PeriodLS4", "PeriodLS5">>

-----------------------------------------------------------------------------
(* numpy helpers.                                                          *)

\* seq[mask]: the elements of seq at the indices in S, in order
RECURSIVE Take(_, _, _)
Take(seq, S, k) ==
    IF k > Len(seq)
    THEN <<>>
    ELSE (IF k \in S THEN <<seq[k]>> ELSE <<>>) \o Take(seq, S, k + 1)

\* np.delete(seq, pos) with pos a 1-based position
Delete(seq, pos) ==
    SubSeq(seq, 1, pos - 1) \o SubSeq(seq, pos + 1, Len(seq))

\* np.argmax(boolean mask): position of the first TRUE, the first position
\* when there is none
ArgmaxEq(seq, x) ==
    IF \E k \in 1..Len(seq) : seq[k] = x
    THEN CHOOSE k \in 1..Len(seq) :
             seq[k] = x /\ \A m \in 1..(k - 1) : seq[m] # x
    ELSE 1

RECURSIVE SumSeq(_)
SumSeq(seq) ==
    IF seq = <<>> THEN 0 ELSE Head(seq) + SumSeq(Tail(seq))

\* scipy.signal.find_peaks(power)[0]: the middle (rounded down) of every
\* plateau that is strictly higher than both its neighbours; the first and
\* last samples are never peaks
find_peaks(x) ==
    { m \in 1..Len(x) :
        \E l \in 2..(Len(x) - 1), r \in 2..(Len(x) - 1) :
            /\ l <= r
            /\ \A k \in l..r : x[k] = x[l]
            /\ x[l - 1] < x[l]
            /\ x[r + 1] < x[r]
            /\ m = (l + r) \div 2 }

\* peaks[np.argmax(power[peaks])]: the highest peak, the first of equals
HighestPeak(pw, peaks) ==
    CHOOSE p \in peaks :
        \A q \in peaks : pw[q] < pw[p] \/ (pw[q] = pw[p] /\ p <= q)

-----------------------------------------------------------------------------
(* The helpers of _components.                                             *)

\* np.inf as a ratio
Inf ==
    [num |-> 1, den |-> 0]

\* snr < snr_threshold on ratios; a ratio with denominator 0 is inf (or
\* nan), for which the comparison is False
SnrBelow(snr, threshold) ==
    snr.den > 0 /\ snr.num < threshold * snr.den

\* frequency >= (fmax - window_size)) & (frequency <= (fmax + window_size)
WindowMask(fq, fmax, wsize) ==
    { k \in 1..Len(fq) : fq[k] >= fmax - wsize /\ fq[k] <= fmax + wsize }

\* variant: the peak bin is left in the noise window
NoisePower_withPeak(fq, pw, fmax_idx, wsize) ==
    Take(pw, WindowMask(fq, fq[fmax_idx], wsize), 1)

\* the noise bins: the window with the peak bin deleted
NoisePower(fq, pw, fmax_idx, wsize) ==
    LET window_mask == WindowMask(fq, fq[fmax_idx], wsize)
    IN  Delete(Take(pw, window_mask, 1),
               ArgmaxEq(Take(fq, window_mask, 1), fq[fmax_idx]))

\* peak_power / np.mean(noise_power), np.inf on an empty noise window
calculate_snr(fq, pw, fmax_idx, wsize) ==
    LET peak_power  == pw[fmax_idx]
        noise_power == NoisePower(fq, pw, fmax_idx, wsize)
    IN  IF Len(noise_power) = 0
        THEN Inf
        ELSE [num |-> peak_power * Len(noise_power),
              den |-> SumSeq(noise_power)]

\* the triple (None, None, None)
NoneTriple ==
    [freq |-> None, power |-> None, idx |-> None]

get_highest_frequency(fq, pw) ==
    LET peaks == find_peaks(pw)
    IN  IF peaks = {}
        THEN NoneTriple
        ELSE LET highest_peak_idx == HighestPeak(pw, peaks)
             IN  [freq  |-> Some(fq[highest_peak_idx]),
                  power |-> Some(pw),
                  idx   |-> Some(highest_peak_idx)]

\* variant: the band is ignored
RangeMask_unrestricted(fq, range) ==
    1..Len(fq)

\* mask = (frequency >= freq_range[0]) & (frequency <= freq_range[1])
RangeMask(fq, range) ==
    IF range = None
    THEN 1..Len(fq)
    ELSE { k \in 1..Len(fq) : fq[k] >= range[1][1] /\ fq[k] <= range[1][2] }

get_significant_frequency(fq, pw, threshold, wsize, range) ==
    LET mask  == RangeMask(fq, range)
        mfq   == Take(fq, mask, 1)
        mpw   == Take(pw, mask, 1)
        peaks == find_peaks(mpw)
    IN  IF peaks = {}
        THEN NoneTriple
        ELSE LET highest_peak_idx == HighestPeak(mpw, peaks)
                 snr == calculate_snr(mfq, mpw, highest_peak_idx, wsize)
             IN  IF SnrBelow(snr, threshold)
                 THEN NoneTriple
                 ELSE [freq  |-> Some(mfq[highest_peak_idx]),
                       power |-> Some(mpw),
                       idx   |-> Some(highest_peak_idx)]

\* the periodograms lscargle may return on a grid of n bins
Periodograms(n, maxp) ==
    [1..n -> 0..maxp]

\* What the unconditional search can return on grid g, over every
\* periodogram lscargle may produce: the frequency of the returned triple
\* (the caller reads nothing else of it), and whether the periodogram had
\* exactly one peak.
HighestResults ==
    [g \in Grids |->
        { [freq   |-> get_highest_frequency(g, pw).freq,
           single |-> Cardinality(find_peaks(pw)) = 1] :
             pw \in Periodograms(Len(g), MaxPower) }]

\* What the gated search can return on grid g with band rg, over every
\* periodogram lscargle may produce.
SignificantResults ==
    [g \in Grids |->
        [rg \in {None, Some(range1), Some(range2)} |->
            { get_significant_frequency(g, pw, snr_threshold, window_size,
                                        rg).freq :
                pw \in Periodograms(Len(g), MaxPower) }]]

-----------------------------------------------------------------------------
(* The harmonic fit.                                                       *)

\* curve_fit(function_to_fit, time, omagnitude)[0][:3] for harmonic index
\* h (0-based)
curve_fit(h) ==
    IF h = 0 THEN FundamentalFits ELSE HarmonicFits

\* variant: the fit is made on the running residual
FitData_current ==
    magnitude

\* the data handed to curve_fit: omagnitude, bound once before the
\* harmonic loop to the residual of that moment
FitData ==
    omagnitude

\* np.sqrt(popt0 ** 2 + popt1 ** 2), kept squared
Amplitude(popt0, popt1) ==
    popt0 * popt0 + popt1 * popt1

\* np.arctan(popt1 / popt0) in units of pi/4, for coefficients in
\* {-1, 0, 1}: a zero popt0 divides to +-inf, whose arctan is +-pi/2
ArcTan(popt1, popt0) ==
    CASE popt0 # 0 -> popt1 * popt0
      [] popt0 = 0 /\ popt1 > 0 -> 2
      [] popt0 = 0 /\ popt1 < 0 -> -2

\* self._model(time, popt0, popt1, popt2, (j + 1) * fundamental_Freq)
Model(popt, Freq) ==
    [a |-> popt[1], b |-> popt[2], c |-> popt[3], Freq |-> Freq]

\* magnitude = np.array(magnitude) - model
Subtract(mag, model) ==
    Append(mag, model)

-----------------------------------------------------------------------------
(* Range classification and the band of the extension searches.            *)

\* any(range[0] <= f <= range[1] for f in freq)
RangePresent(range, fr) ==
    \E k \in 1..Len(fr) : range[1] <= fr[k][1] /\ fr[k][1] <= range[2]

\* variant: the missing range2 is tested before the missing range1
ExtensionRange_range2First(r1_present, r2_present) ==
    IF r1_present /\ r2_present
    THEN None
    ELSE IF ~r2_present
         THEN Some(range2)
         ELSE Some(range1)

\* the freq_range argument of the loop the if/else of lines 315-364 enters
ExtensionRange(r1_present, r2_present) ==
    IF r1_present /\ r2_present
    THEN None
    ELSE IF ~r1_present
         THEN Some(range1)
         ELSE Some(range2)

-----------------------------------------------------------------------------
(* Phase normalisation and result assembly.                                *)

\* variant: every row is shifted by slot 0's first raw phase
ScaledPH_global(ph) ==
    [r \in 1..Len(ph) |-> [c \in 1..Len(ph[r]) |-> ph[r][c] - ph[1][1]]]

\* PH - PH[:, 0].reshape((len(PH), 1))
ScaledPH(ph) ==
    [r \in 1..Len(ph) |-> [c \in 1..Len(ph[r]) |-> ph[r][c] - ph[r][1]]]

\* 1 / freq[i]: a frequency of f tenths has period 10 / f
Period(f) ==
    [num |-> 10, den |-> f]

\* variant: off by one, the last recorded slot counts as unpopulated
Populated_short(s, fr) ==
    s < Len(fr)

\* if i < len(freq): the slot is populated
Populated(s, fr) ==
    s - 1 < Len(fr)

\* variant: slot 0 gets a period too
HasPeriod_all(s) ==
    s - 1 >= 0

\* if i > 0: the slot has a PeriodLS key
HasPeriod(s) ==
    s - 1 > 0

\* the value fit stores for a field of an unpopulated slot
Missing ==
    None

\* the (key, value) pairs fit stores; slots s and harmonics h are 1-based
FitEntries(amp, sPH, fr) ==
    { <<AmplitudeKey[s][h],
        IF Populated(s, fr) THEN Some(amp[s][h]) ELSE Missing>> :
          s \in 1..FitSlots, h \in 1..Harmonics }
    \cup
    { <<RelPhaseKey[s][h],
        IF Populated(s, fr) THEN Some(sPH[s][h]) ELSE Missing>> :
          s \in 1..FitSlots, h \in 1..Harmonics }
    \cup
    { <<PeriodKey[s],
        IF Populated(s, fr) THEN Some(Period(fr[s][1])) ELSE Missing>> :
          s \in { t \in 1..FitSlots : HasPeriod(t) } }

FitResult(amp, sPH, fr) ==
    LET entries == FitEntries(amp, sPH, fr)
    IN  [k \in { e[1] : e \in entries } |->
            (CHOOSE e \in entries : e[1] = k)[2]]

-----------------------------------------------------------------------------
(* FourierComponents.fit as a state machine.                               *)

Init ==
    /\ pc = "stepA"
    /\ frequency \in Grids
    /\ power = None
    /\ ret = None
    /\ freq_range = None
    /\ i = 0
    /\ j = 0
    /\ fundamental_Freq = None
    /\ freq = <<>>
    /\ A = <<>>
    /\ PH = <<>>
    /\ Atemp = <<>>
    /\ PHtemp = <<>>
    /\ magnitude = <<>>
    /\ omagnitude = <<>>
    /\ fitted = None
    /\ range1_present = FALSE
    /\ range2_present = FALSE
    /\ scaledPH = <<>>
    /\ result = <<>>
    /\ single_peak = FALSE

\* lines 290-295: one unconditional search and the start of its slot
StepASearch ==
    /\ pc = "stepA"
    /\ i < StepASlots
    /\ \E r \in HighestResults[frequency] :
         /\ fundamental_Freq' = r.freq
         /\ freq' = Append(freq, r.freq)
         /\ single_peak' = IF i = 0 THEN r.single ELSE single_peak
    /\ Atemp' = <<>>
    /\ PHtemp' = <<>>
    /\ omagnitude' = magnitude
    /\ j' = 0
    /\ pc' = "fitA"
    /\ UNCHANGED <<frequency, power, ret, freq_range, i, A, PH, magnitude,
                   fitted, range1_present, range2_present, scaledPH, result>>

\* lines 297-303 (and 327-333, 350-356, 373-379): one harmonic.
\* (j + 1) * None raises TypeError.
FitHarmonic ==
    /\ pc \in {"fitA", "fitC"}
    /\ j < Harmonics
    /\ IF fundamental_Freq = None
       THEN /\ pc' = "raised"
            /\ UNCHANGED <<j, Atemp, PHtemp, magnitude, fitted>>
       ELSE \E popt \in curve_fit(j) :
              /\ fitted' = Some(FitData)
              /\ Atemp' = Append(Atemp, Amplitude(popt[1], popt[2]))
              /\ PHtemp' = Append(PHtemp, ArcTan(popt[2], popt[1]))
              /\ magnitude' =
                   Subtract(magnitude,
                            Model(popt, (j + 1) * fundamental_Freq[1]))
              /\ j' = j + 1
              /\ pc' = pc
    /\ UNCHANGED <<frequency, power, ret, freq_range, i, fundamental_Freq,
                   freq, A, PH, omagnitude, range1_present, range2_present,
                   scaledPH, result, single_peak>>

\* lines 305-306 (and 335-336, 358-359, 381-382) and the loop headers
EndSlot ==
    /\ pc \in {"fitA", "fitC"}
    /\ j = Harmonics
    /\ A' = Append(A, Atemp)
    /\ PH' = Append(PH, PHtemp)
    /\ i' = i + 1
    /\ pc' = IF pc = "fitA"
             THEN (IF i + 1 < StepASlots THEN "stepA" ELSE "classify")
             ELSE (IF i + 1 < ExtensionSlots THEN "stepC" ELSE "normalize")
    /\ UNCHANGED <<frequency, power, ret, freq_range, j, fundamental_Freq,
                   freq, Atemp, PHtemp, magnitude, omagnitude, fitted,
                   range1_present, range2_present, scaledPH, result,
                   single_peak>>

\* lines 309-315, 337-339, 361: the ranges present and the loop entered
Classify ==
    /\ pc = "classify"
    /\ range1_present' = RangePresent(range1, freq)
    /\ range2_present' = RangePresent(range2, freq)
    /\ freq_range' = ExtensionRange(RangePresent(range1, freq),
                                    RangePresent(range2, freq))
    /\ i' = 0
    /\ pc' = "stepC"
    /\ UNCHANGED <<frequency, power, ret, j, fundamental_Freq, freq, A, PH,
                   Atemp, PHtemp, magnitude, omagnitude, fitted, scaledPH,
                   result, single_peak>>

\* variant: a failed search skips its slot instead of leaving the loop
ExtensionSearch_continue ==
    /\ pc = "stepC"
    /\ i < ExtensionSlots
    /\ \E f \in SignificantResults[frequency][freq_range] :
         /\ fundamental_Freq' = f
         /\ IF f = None
            THEN /\ pc' = IF i + 1 < ExtensionSlots
                          THEN "stepC" ELSE "normalize"
                 /\ i' = i + 1
                 /\ UNCHANGED <<freq, Atemp, PHtemp, omagnitude, j>>
            ELSE /\ Atemp' = <<>>
                 /\ PHtemp' = <<>>
                 /\ omagnitude' = magnitude
                 /\ freq' = Append(freq, f)
                 /\ j' = 0
                 /\ i' = i
                 /\ pc' = "fitC"
    /\ UNCHANGED <<frequency, power, ret, freq_range, A, PH, magnitude,
                   fitted, range1_present, range2_present, scaledPH, result,
                   single_peak>>

\* lines 317-325 (and 341-348, 363-371): one gated search; None breaks
ExtensionSearch ==
    /\ pc = "stepC"
    /\ i < ExtensionSlots
    /\ \E f \in SignificantResults[frequency][freq_range] :
         /\ fundamental_Freq' = f
         /\ IF f = None
            THEN /\ pc' = "normalize"
                 /\ UNCHANGED <<freq, Atemp, PHtemp, omagnitude, j>>
            ELSE /\ Atemp' = <<>>
                 /\ PHtemp' = <<>>
                 /\ omagnitude' = magnitude
                 /\ freq' = Append(freq, f)
                 /\ j' = 0
                 /\ pc' = "fitC"
    /\ UNCHANGED <<frequency, power, ret, freq_range, i, A, PH, magnitude,
                   fitted, range1_present, range2_present, scaledPH, result,
                   single_peak>>

\* lines 384-388: _components returns A, scaledPH, freq
Normalize ==
    /\ pc = "normalize"
    /\ scaledPH' = ScaledPH(PH)
    /\ pc' = "assemble"
    /\ UNCHANGED <<frequency, power, ret, freq_range, i, j, fundamental_Freq,
                   freq, A, PH, Atemp, PHtemp, magnitude, omagnitude, fitted,
                   range1_present, range2_present, result, single_peak>>

\* lines 394-410: fit fills and returns the mapping
Fit ==
    /\ pc = "assemble"
    /\ result' = FitResult(A, scaledPH, freq)
    /\ pc' = "done"
    /\ UNCHANGED <<frequency, power, ret, freq_range, i, j, fundamental_Freq,
                   freq, A, PH, Atemp, PHtemp, magnitude, omagnitude, fitted,
                   range1_present, range2_present, scaledPH, single_peak>>

Next ==
    \/ StepASearch
    \/ FitHarmonic
    \/ EndSlot
    \/ Classify
    \/ ExtensionSearch
    \/ Normalize
    \/ Fit

Spec ==
    Init /\ [][Next]_vars

-----------------------------------------------------------------------------
(* The two search helpers on their own: every periodogram on every grid,   *)
(* with and without a band.                                                *)

InitHelper ==
    /\ pc = "helper"
    /\ frequency \in HelperGrids
    /\ power \in { Some(pw) : pw \in Periodograms(5, MaxHelperPower) }
    /\ freq_range \in {None, Some(range1), Some(range2)}
    /\ ret = None
    /\ i = 0
    /\ j = 0
    /\ fundamental_Freq = None
    /\ freq = <<>>
    /\ A = <<>>
    /\ PH = <<>>
    /\ Atemp = <<>>
    /\ PHtemp = <<>>
    /\ magnitude = <<>>
    /\ omagnitude = <<>>
    /\ fitted = None
    /\ range1_present = FALSE
    /\ range2_present = FALSE
    /\ scaledPH = <<>>
    /\ result = <<>>
    /\ single_peak = FALSE

\* lines 254-265
CallHighest ==
    /\ pc = "helper"
    /\ ret' = Some(get_highest_frequency(frequency, power[1]))
    /\ pc' = "highest_returned"
    /\ UNCHANGED <<frequency, power, freq_range, i, j, fundamental_Freq,
                   freq, A, PH, Atemp, PHtemp, magnitude, omagnitude, fitted,
                   range1_present, range2_present, scaledPH, result,
                   single_peak>>

\* lines 268-287
CallSignificant ==
    /\ pc = "helper"
    /\ ret' = Some(get_significant_frequency(frequency, power[1],
                                             snr_threshold, window_size,
                                             freq_range))
    /\ pc' = "significant_returned"
    /\ UNCHANGED <<frequency, power, freq_range, i, j, fundamental_Freq,
                   freq, A, PH, Atemp, PHtemp, magnitude, omagnitude, fitted,
                   range1_present, range2_present, scaledPH, result,
                   single_peak>>

NextHelper ==
    \/ CallHighest
    \/ CallSignificant

SpecHelper ==
    InitHelper /\ [][NextHelper]_vars

-----------------------------------------------------------------------------
(* Properties.                                                             *)

\* _components has returned
Returned ==
    pc \in {"assemble", "done"}

\* the extension step has been entered
Classified ==
    pc \in {"stepC", "fitC", "normalize", "assemble", "done"}

InRange1(f) ==
    4 <= f /\ f <= 33

InRange2(f) ==
    33 <= f /\ f <= 274

\* C1: when fit returns, the mapping has exactly the 44 feature keys
\* (PeriodLS1 is not one of them), and every field of every slot at or
\* beyond the number of frequencies found is None, never a number.
C1_KeysAndMissingSlots ==
    pc = "done" =>
        /\ DOMAIN result = features
        /\ "PeriodLS1" \notin DOMAIN result
        /\ \A s \in 1..5 :
             s > Len(freq) =>
                /\ \A h \in 1..4 :
                     /\ result[AmplitudeKey[s][h]] = None
                     /\ result[RelPhaseKey[s][h]] = None
                /\ s > 1 => result[PeriodKey[s]] = None

\* fit has returned with only the three Step A slots populated
C1_Witness ==
    /\ pc = "done"
    /\ Len(freq) = 3
    /\ result["Freq4_harmonics_amplitude_0"] = None
    /\ result["PeriodLS5"] = None

C3_NoPeakNeverRaises ==
    ~(pc = "raised" /\ fundamental_Freq = None /\ Len(freq) <= 3)

\* the peak bin of the periodogram under test, in the searched grid
C4_Mask ==
    { k \in 1..Len(frequency) :
        freq_range # None =>
            /\ frequency[k] >= freq_range[1][1]
            /\ frequency[k] <= freq_range[1][2] }

C4_Candidates ==
    find_peaks(Take(power[1], C4_Mask, 1))

C4_Peak ==
    HighestPeak(Take(power[1], C4_Mask, 1), C4_Candidates)

\* the bins of the searched grid within window_size of the peak frequency,
\* both ends included, without the peak bin
C4_Noise ==
    LET fq == Take(frequency, C4_Mask, 1)
    IN  { k \in 1..Len(fq) :
            /\ k # C4_Peak
            /\ fq[k] - fq[C4_Peak] <= 5
            /\ fq[C4_Peak] - fq[k] <= 5 }

RECURSIVE SumOver(_, _)
SumOver(pw, S) ==
    IF S = {}
    THEN 0
    ELSE LET k == CHOOSE x \in S : TRUE
         IN  pw[k] + SumOver(pw, S \ {k})

\* SNR >= 3, with SNR = peak power / mean noise power, infinite when no
\* noise bin remains (or the noise power is zero)
C4_Passes ==
    LET pw == Take(power[1], C4_Mask, 1)
    IN  \/ C4_Noise = {}
        \/ pw[C4_Peak] * Cardinality(C4_Noise) >= 3 * SumOver(pw, C4_Noise)

\* C4: the gated search returns the candidate peak's frequency if and only
\* if its SNR is at least snr_threshold = 3; with an empty noise window the
\* candidate is always returned; below the threshold (or with no candidate)
\* it returns None.
C4_SnrGate ==
    pc = "significant_returned" =>
        IF C4_Candidates # {} /\ C4_Passes
        THEN ret[1].freq = Some(Take(frequency, C4_Mask, 1)[C4_Peak])
        ELSE ret[1].freq = None

\* a candidate with two noise bins and SNR exactly 3 was accepted
C4_Witness ==
    /\ pc = "significant_returned"
    /\ C4_Candidates # {}
    /\ Cardinality(C4_Noise) = 2
    /\ Take(power[1], C4_Mask, 1)[C4_Peak] * 2
         = 3 * SumOver(Take(power[1], C4_Mask, 1), C4_Noise)
    /\ ret[1].freq # None

\* C5: when the extension searches a band, every frequency recorded for
\* slots 3 and 4 lies in that band, ends included; in particular when all
\* three Step A frequencies are in [0.4, 3.3] and none is in [3.3, 27.4],
\* the extension frequencies are in [3.3, 27.4].
C5_ExtensionInBand ==
    Classified =>
        \A k \in 4..Len(freq) :
            /\ freq_range = Some(<<4, 33>>) => InRange1(freq[k][1])
            /\ freq_range = Some(<<33, 274>>) => InRange2(freq[k][1])
            /\ ( /\ \A m \in 1..3 : InRange1(freq[m][1])
                 /\ \A m \in 1..3 : ~InRange2(freq[m][1]) )
               => InRange2(freq[k][1])

\* both extension slots were filled from range2 after three Step A
\* frequencies in range1 only
C5_Witness ==
    /\ pc = "done"
    /\ Len(freq) = 5
    /\ \A m \in 1..3 : InRange1(freq[m][1]) /\ ~InRange2(freq[m][1])
    /\ freq_range = Some(range2)
    /\ InRange2(freq[4][1])
    /\ InRange2(freq[5][1])

\* C6: the extension makes at most 2 attempts and stops at the first
\* attempt that returns None; the slots already recorded are kept; the
\* populated slots are a prefix of length 3..5.
C6_ExtensionStopsAtFirstFailure ==
    [][ /\ Classified =>
             /\ Len(freq) <= Len(freq')
             /\ SubSeq(freq', 1, Len(freq)) = freq
             /\ SubSeq(A', 1, Len(A)) = A
             /\ SubSeq(PH', 1, Len(PH)) = PH
        /\ (pc = "stepC" /\ fundamental_Freq' = None) =>
             /\ pc' = "normalize"
             /\ freq' = freq
        /\ (pc' \in {"normalize", "assemble", "done"}) =>
             /\ i' <= 2
             /\ Len(freq') >= 3
             /\ Len(freq') <= 5
             /\ Len(A') = Len(freq')
             /\ Len(PH') = Len(freq')
             /\ fundamental_Freq' = None => Len(freq') = 3 + i'
             /\ fundamental_Freq' # None => Len(freq') = 5
      ]_vars

\* slot 3 was accepted, the attempt for slot 4 failed
C6_Witness ==
    /\ pc = "done"
    /\ Len(freq) = 4
    /\ fundamental_Freq = None
    /\ i = 1

C8_FitOnCurrentResidual ==
    (pc \in {"fitA", "fitC"} /\ j >= 1) =>
        fitted = Some(SubSeq(magnitude, 1, Len(magnitude) - 1))

\* C8 amended: the harmonics are fitted and subtracted one at a time in the
\* order 1, 2, 3, 4, each subtraction applied to the running residual, but
\* every fit of a slot is made on the residual as it was when the slot
\* started.
C8_FitOnSlotStartResidual ==
    (pc \in {"fitA", "fitC"} /\ j >= 1) =>
        /\ fitted = Some(SubSeq(magnitude, 1, Len(magnitude) - j))
        /\ Len(magnitude) = 4 * (Len(freq) - 1) + j
        /\ \A h \in 1..j :
             magnitude[Len(magnitude) - j + h].Freq = h * fundamental_Freq[1]

\* the fourth harmonic of an extension slot has been fitted
C8_Witness ==
    /\ pc = "fitC"
    /\ j = 4
    /\ Len(magnitude) = 16
    /\ fitted = Some(SubSeq(magnitude, 1, 12))

\* C9: the band of both extension iterations is a function of the three
\* Step A frequencies: none when range1 and range2 are both represented,
\* range1 when range1 is not represented, range2 otherwise; it is not
\* re-evaluated once slot 3 is recorded.
C9_BandFromStepA ==
    Classified =>
        LET r1 == \E m \in 1..3 : InRange1(freq[m][1])
            r2 == \E m \in 1..3 : InRange2(freq[m][1])
        IN  /\ (r1 /\ r2) => freq_range = None
            /\ ~r1 => freq_range = Some(<<4, 33>>)
            /\ (r1 /\ ~r2) => freq_range = Some(<<33, 274>>)

\* neither range represented after Step A, slot 3 then found in range1,
\* and the second extension iteration still searches range1
C9_Witness ==
    /\ pc = "stepC"
    /\ i = 1
    /\ Len(freq) = 4
    /\ \A m \in 1..3 : ~InRange1(freq[m][1]) /\ ~InRange2(freq[m][1])
    /\ InRange1(freq[4][1])
    /\ freq_range = Some(range1)

\* C10: every slot's relative phases are its raw phases minus slot 0's
\* first-harmonic raw phase.
C10_GlobalNormalization ==
    Returned =>
        \A s \in 1..Len(scaledPH) :
            \A h \in 1..4 : scaledPH[s][h] = PH[s][h] - PH[1][1]
====
